---- MODULE Spec2Model ----
(***************************************************************************)
(* Recurring-invoice engine of app_v2 (1).py: invoice number allocation,   *)
(* the scheduled generation cycle, totals, recurrence dates and the status *)
(* changes made by the admin and customer routes.                          *)
(*                                                                         *)
(* Time is counted in whole days; day 0 is 2024-01-01.  Money is counted   *)
(* in cents.  A character of an invoice number's trailing segment is its   *)
(* ASCII code minus 48, so the digits are 0..9 and 'X' is 40.              *)
(***************************************************************************)
EXTENDS Integers, Sequences, FiniteSets, TLC

VARIABLES
    now,          \* wall clock (days)
    invoices,     \* committed rows of table invoices: id -> row (items inlined)
    wpc,          \* create_invoice_page request slots: position
    wloc,         \* create_invoice_page request slots: locals
    spc,          \* process_recurring_invoices: position
    queue,        \* process_recurring_invoices: templates still to process
    cur,          \* process_recurring_invoices: locals (now, new_number, child id)
    cyc,          \* history: templates selected / raised / given a child in the
                  \* cycle, and how the cycle ended
    generated,    \* history: (template, due date, child) of every committed child
    created,      \* history: number of rows ever inserted into invoices
    retired,      \* history: invoice_numbers once committed on a row and no
                  \* longer on any row
    sendlog,      \* send_invoice_email call made by the last step, or NoSend
    notes,        \* notifications recorded by the last step
    exc,          \* exception raised in the last step: who raised what
    peer,         \* the scheduler of a second process of the application, if
                  \* one was started: position, queue and locals of its cycle
    fin,          \* a call of one of the two pure functions: its arguments
    fout          \* the result of that call

vars == <<now, invoices, wpc, wloc, spc, queue, cur, cyc, generated, created,
          retired, sendlog, notes, exc, peer, fin, fout>>

----------------------------------------------------------------------------
(* Bounds *)

MaxInvoices == 3     \* SpecAlloc: rows inserted in all
MaxPages == 2        \* Spec: rows inserted by create_invoice_page
MaxRows == 4         \* Spec: rows inserted in all
StatusPages == 2     \* SpecStatus: rows inserted by create_invoice_page
StatusRows == 3      \* SpecStatus: rows inserted in all
OverlapPages == 2    \* SpecOverlap: rows inserted by create_invoice_page
OverlapRows == 4     \* SpecOverlap: rows inserted in all
TotalsPages == 1     \* SpecTotals: rows inserted by create_invoice_page
TotalsRows == 3      \* SpecTotals: rows inserted in all
StoredPages == 3     \* SpecStored: rows stored and inserted by create_invoice_page
StoredRows == 5      \* SpecStored: rows stored and inserted in all
RenamePages == 1     \* SpecRename: rows inserted by create_invoice_page
RenameRows == 2      \* SpecRename: rows inserted in all
LivePages == 2       \* SpecLive: rows inserted by create_invoice_page
DuePages == 1        \* SpecDue: rows inserted by create_invoice_page
DueRows == 3         \* SpecDue: rows inserted in all
MaxDbRows == 3       \* SpecPure: rows of the table a call reads
MaxNow == 30         \* last day the clock reaches

(* Program constants *)

PadWidth == 4
MonthlyDays == 30
WeeklyDays == 7
DailyDays == 1

NoDate == -1                      \* None in a DateTime column
NoId == 0                         \* no row
NoSend == [inv |-> NoId, ok |-> FALSE]
NoExc == [who |-> "", err |-> ""]
Exc(who, err) == [who |-> who, err |-> err]
CharX == 40

Web == {"w1", "w2"}
Statuses == {"draft", "sent", "paid", "overdue", "cancelled"}

----------------------------------------------------------------------------
(* Collaborator rows that exist before any invoice: the default admin user *)
(* and two clients of that admin.                                          *)

AdminUser == [invoice_prefix |-> "INV", email |-> "admin@example.com"]
CustomerUser == [invoice_prefix |-> "INV", email |-> "customer@example.com"]

Clients ==
    [c1 |-> [invoice_prefix |-> "acme", email |-> "customer@example.com"],
     c2 |-> [invoice_prefix |-> "",     email |-> ""]]

ClientIds == {"c1", "c2"}

----------------------------------------------------------------------------
(* Generic helpers *)

Max(S) == CHOOSE x \in S : \A y \in S : y <= x

RECURSIVE SumAmounts(_)
SumAmounts(items) ==
    IF items = <<>> THEN 0 ELSE Head(items).amount + SumAmounts(Tail(items))

\* str.upper() on the prefixes that occur
Upper(s) ==
    CASE s = "acme" -> "ACME"
      [] s = "inv"  -> "INV"
      [] s = "x"    -> "X"
      [] OTHER      -> s

\* strftime('%Y%m') for the days of 2024 the clock can reach
YearMonth(d) ==
    IF d < 31 THEN 202401
    ELSE IF d < 60 THEN 202402
    ELSE IF d < 91 THEN 202403
    ELSE 202404

----------------------------------------------------------------------------
(* Invoice numbers: PREFIX-YYYYMM-TAIL *)

Num(p, ym, t) == [prefix |-> p, ym |-> ym, tail |-> t]

RECURSIVE DigitsOf(_)
DigitsOf(n) == IF n < 10 THEN <<n>> ELSE Append(DigitsOf(n \div 10), n % 10)

RECURSIVE PadLeft(_, _)
PadLeft(s, w) == IF Len(s) >= w THEN s ELSE PadLeft(<<0>> \o s, w)

\* f'{new_num:04d}'
Format04(n) == PadLeft(DigitsOf(n), PadWidth)

IsNumeric(t) == Len(t) > 0 /\ \A k \in 1..Len(t) : t[k] \in 0..9

RECURSIVE ParseInt(_)
\* int(s) of a string of digits
ParseInt(t) ==
    IF Len(t) = 0 THEN 0
    ELSE 10 * ParseInt(SubSeq(t, 1, Len(t) - 1)) + t[Len(t)]

RECURSIVE LexLess(_, _)
\* string comparison used by ORDER BY invoice_number
LexLess(a, b) ==
    IF b = <<>> THEN FALSE
    ELSE IF a = <<>> THEN TRUE
    ELSE IF Head(a) # Head(b) THEN Head(a) < Head(b)
    ELSE LexLess(Tail(a), Tail(b))

\* invoice_number LIKE 'PREFIX-YYYYMM-%'
Like(n, p, ym) == n.prefix = p /\ n.ym = ym

NoNum == Num("", 0, <<>>)
Returned(n) == [raised |-> "", value |-> n]
Raised(e) == [raised |-> e, value |-> NoNum]

ValueError == "ValueError"
IntegrityError == "IntegrityError"
ObjectDeletedError == "ObjectDeletedError"

\* a None or empty invoice_prefix is the empty string
ResolvePrefix(user, client, prefix) ==
    IF client.invoice_prefix # "" THEN Upper(client.invoice_prefix)
    ELSE IF user.invoice_prefix # "" THEN Upper(user.invoice_prefix)
    ELSE Upper(prefix)

\* LastInvoice with a pattern that leaves the year-month out
LastInvoice_AnyMonth(db, p, ym) ==
    LET matching == {i \in DOMAIN db : db[i].invoice_number.prefix = p}
    IN  IF matching = {} THEN NoId
        ELSE CHOOSE i \in matching : \A j \in matching :
                 j = i \/ ~LexLess(db[i].invoice_number.tail,
                                   db[j].invoice_number.tail)

\* the row .order_by(Invoice.invoice_number.desc()).first() returns
LastInvoice(db, p, ym) ==
    LET matching == {i \in DOMAIN db : Like(db[i].invoice_number, p, ym)}
    IN  IF matching = {} THEN NoId
        ELSE CHOOSE i \in matching : \A j \in matching :
                 j = i \/ LexLess(db[j].invoice_number.tail,
                                  db[i].invoice_number.tail)

generate_invoice_number(db, user, client, prefix, today) ==
    LET p == ResolvePrefix(user, client, prefix)
        ym == YearMonth(today)
        last == LastInvoice(db, p, ym)
    IN  IF last = NoId THEN Returned(Num(p, ym, Format04(1)))
        ELSE IF ~IsNumeric(db[last].invoice_number.tail)
        THEN Raised(ValueError)
        ELSE Returned(Num(p, ym,
                 Format04(ParseInt(db[last].invoice_number.tail) + 1)))

----------------------------------------------------------------------------
(* Invoice rows *)

Item(q, p) == [quantity |-> q, unit_price |-> p, amount |-> q * p]

\* calculate_totals reading the items as they were before the operation
\* added any: none
calculate_totals_Unflushed(inv) ==
    [inv EXCEPT !.subtotal = 0, !.tax_amount = 0, !.total_amount = 0]

calculate_totals(inv) ==
    LET sub == SumAmounts(inv.items)
        tax == (sub * inv.tax_rate) \div 100
    IN  [inv EXCEPT !.subtotal = sub, !.tax_amount = tax,
                    !.total_amount = sub + tax]

\* Period with a month of 31 days
Period_Month31(frequency) ==
    CASE frequency = "daily"   -> DailyDays
      [] frequency = "weekly"  -> WeeklyDays
      [] frequency = "monthly" -> MonthlyDays + 1
      [] OTHER                 -> 0

Period(frequency) ==
    CASE frequency = "daily"   -> DailyDays
      [] frequency = "weekly"  -> WeeklyDays
      [] frequency = "monthly" -> MonthlyDays
      [] OTHER                 -> 0

\* calculate_next_send_date with the fallback chain of the base date reversed
calculate_next_send_date_FromDate(inv) ==
    IF ~inv.is_recurring \/ inv.frequency = "" THEN NoDate
    ELSE LET base_date == IF inv.date # NoDate THEN inv.date
                          ELSE IF inv.initial_send_date # NoDate
                          THEN inv.initial_send_date
                          ELSE inv.next_send_date
         IN  IF Period(inv.frequency) = 0 THEN NoDate
             ELSE base_date + Period(inv.frequency)

\* a None or empty frequency is the empty string
calculate_next_send_date(inv) ==
    IF ~inv.is_recurring \/ inv.frequency = "" THEN NoDate
    ELSE LET base_date == IF inv.next_send_date # NoDate THEN inv.next_send_date
                          ELSE IF inv.initial_send_date # NoDate
                          THEN inv.initial_send_date
                          ELSE inv.date
         IN  IF Period(inv.frequency) = 0 THEN NoDate
             ELSE base_date + Period(inv.frequency)

NewId(db) == IF DOMAIN db = {} THEN 1 ELSE Max(DOMAIN db) + 1

Insert(db, id, row) == [i \in DOMAIN db \cup {id} |-> IF i = id THEN row ELSE db[i]]

Remove(db, id) == [i \in DOMAIN db \ {id} |-> db[i]]

Numbers(db) == {db[i].invoice_number : i \in DOMAIN db}

\* send_invoice_email: False without a client e-mail, else the SMTP outcome
send_invoice_email(inv, smtp_ok) ==
    IF Clients[inv.client_id].email = "" THEN FALSE ELSE smtp_ok

Notification(title, about) == [title |-> title, about |-> about]

----------------------------------------------------------------------------
(* create_invoice_page *)

\* the row built at lines 893-907 with the items of lines 913-928 and the
\* totals of line 931
NewInvoice(form, number, today) ==
    calculate_totals(
        [invoice_number    |-> number,
         date              |-> today,
         due_date          |-> today + form.due_in,
         status            |-> "draft",
         tax_rate          |-> form.tax_rate,
         subtotal          |-> 0,
         tax_amount        |-> 0,
         total_amount      |-> 0,
         is_recurring      |-> form.is_recurring,
         frequency         |-> form.frequency,
         initial_send_date |-> IF form.is_recurring THEN today ELSE NoDate,
         next_send_date    |-> IF form.is_recurring /\ Period(form.frequency) # 0
                               THEN today + Period(form.frequency)
                               ELSE NoDate,
         client_id         |-> form.client_id,
         items             |-> form.items])

NoLoc == [form |-> <<>>, number |-> NoNum, today |-> NoDate, id |-> NoId]

\* rows inserted so far plus the rows the request slots are about to insert
Population == created + Cardinality({w \in Web : wpc[w] = "persist"})

\* a scheduler's session holds SQLite's write lock from its INSERT (flush)
\* to its commit
WriteLocked == spc = "commit" \/ peer.pc = "commit"

\* lines 836-878: read the form, allocate the number
WebAlloc(w, form) ==
    /\ wpc[w] = "idle"
    /\ LET r == generate_invoice_number(invoices, AdminUser,
                    Clients[form.client_id],
                    IF form.invoice_prefix = "" THEN "INV"
                    ELSE form.invoice_prefix, now)
       IN  IF r.raised # ""
           THEN /\ exc' = Exc(w, r.raised)
                /\ UNCHANGED <<wpc, wloc>>
           ELSE /\ wpc' = [wpc EXCEPT ![w] = "persist"]
                /\ wloc' = [wloc EXCEPT ![w] =
                       [form |-> form, number |-> r.value, today |-> now,
                        id |-> NoId]]
                /\ exc' = NoExc
    /\ sendlog' = NoSend
    /\ notes' = <<>>
    /\ UNCHANGED <<now, invoices, spc, queue, cur, cyc, generated, created, retired>>
    /\ UNCHANGED <<peer, fin, fout>>

\* lines 880-940: INSERT, items, totals, commit, notification; the unique
\* index on invoice_number rejects a duplicate and line 960 rolls back
WebPersist(w) ==
    /\ wpc[w] = "persist"
    /\ ~WriteLocked
    /\ IF wloc[w].number \in Numbers(invoices)
       THEN /\ exc' = Exc(w, IntegrityError)
            /\ wpc' = [wpc EXCEPT ![w] = "idle"]
            /\ wloc' = [wloc EXCEPT ![w] = NoLoc]
            /\ notes' = <<>>
            /\ UNCHANGED <<invoices, created, retired>>
       ELSE LET id == NewId(invoices)
            IN  /\ invoices' = Insert(invoices, id,
                       NewInvoice(wloc[w].form, wloc[w].number, wloc[w].today))
                /\ retired' = retired \ {wloc[w].number}
                /\ created' = created + 1
                /\ wpc' = [wpc EXCEPT ![w] = "deliver"]
                /\ wloc' = [wloc EXCEPT ![w].id = id]
                /\ notes' = <<Notification("Invoice Created", id)>>
                /\ exc' = NoExc
    /\ sendlog' = NoSend
    /\ UNCHANGED <<now, spc, queue, cur, cyc, generated>>
    /\ UNCHANGED <<peer, fin, fout>>

\* lines 942-958: send the e-mail, mark sent only on success
WebDeliver(w, smtp_ok) ==
    /\ wpc[w] = "deliver"
    /\ ~WriteLocked
    /\ LET id == wloc[w].id
       IN  IF id \notin DOMAIN invoices
           THEN /\ exc' = Exc(w, ObjectDeletedError)
                /\ sendlog' = NoSend
                /\ UNCHANGED invoices
           ELSE LET ok == send_invoice_email(invoices[id], smtp_ok)
                IN  /\ sendlog' = [inv |-> id, ok |-> ok]
                    /\ invoices' = IF ok
                                   THEN [invoices EXCEPT ![id].status = "sent"]
                                   ELSE invoices
                    /\ exc' = NoExc
    /\ wpc' = [wpc EXCEPT ![w] = "idle"]
    /\ wloc' = [wloc EXCEPT ![w] = NoLoc]
    /\ notes' = <<>>
    /\ UNCHANGED <<now, spc, queue, cur, cyc, generated, created, retired>>
    /\ UNCHANGED <<peer, fin, fout>>

\* create_invoice_page served without another request in between
CreateInvoicePage(form, smtp_ok) ==
    /\ \A w \in Web : wpc[w] = "idle"
    /\ ~WriteLocked
    /\ LET r == generate_invoice_number(invoices, AdminUser,
                    Clients[form.client_id],
                    IF form.invoice_prefix = "" THEN "INV"
                    ELSE form.invoice_prefix, now)
           id == NewId(invoices)
           row == NewInvoice(form, r.value, now)
           ok == send_invoice_email(row, smtp_ok)
       IN  IF r.raised # ""
           THEN /\ exc' = Exc("web", r.raised)
                /\ sendlog' = NoSend
                /\ notes' = <<>>
                /\ UNCHANGED <<invoices, created, retired>>
           ELSE /\ invoices' = Insert(invoices, id,
                       [row EXCEPT !.status = IF ok THEN "sent" ELSE "draft"])
                /\ created' = created + 1
                /\ retired' = retired \ {r.value}
                /\ sendlog' = [inv |-> id, ok |-> ok]
                /\ notes' = <<Notification("Invoice Created", id)>>
                /\ exc' = NoExc
    /\ UNCHANGED <<now, wpc, wloc, spc, queue, cur, cyc, generated>>
    /\ UNCHANGED <<peer, fin, fout>>

----------------------------------------------------------------------------
(* Admin and customer routes on one invoice *)

\* update_invoice_number without the duplicate check of line 991
UpdateInvoiceNumber_Unchecked(i, new_number) ==
    /\ i \in DOMAIN invoices
    /\ ~WriteLocked
    /\ new_number # NoNum
    /\ invoices' = [invoices EXCEPT ![i].invoice_number = new_number]
    /\ retired' = (retired \cup {invoices[i].invoice_number}) \ {new_number}
    /\ UNCHANGED created
    /\ sendlog' = NoSend
    /\ notes' = <<>>
    /\ exc' = NoExc
    /\ UNCHANGED <<now, wpc, wloc, spc, queue, cur, cyc, generated>>
    /\ UNCHANGED <<peer, fin, fout>>

\* update_invoice_number
UpdateInvoiceNumber(i, new_number) ==
    /\ i \in DOMAIN invoices
    /\ ~WriteLocked
    /\ new_number # NoNum
    /\ IF \E j \in DOMAIN invoices :
              j # i /\ invoices[j].invoice_number = new_number
       THEN UNCHANGED <<invoices, created, retired>>
       ELSE /\ invoices' = [invoices EXCEPT ![i].invoice_number = new_number]
            /\ retired' = (retired \cup {invoices[i].invoice_number})
                              \ {new_number}
            /\ UNCHANGED created
    /\ sendlog' = NoSend
    /\ notes' = <<>>
    /\ exc' = NoExc
    /\ UNCHANGED <<now, wpc, wloc, spc, queue, cur, cyc, generated>>
    /\ UNCHANGED <<peer, fin, fout>>

\* update_invoice_status writing 'sent' without looking at the e-mail's outcome
UpdateInvoiceStatus_Ungated(i, new_status, smtp_ok) ==
    /\ i \in DOMAIN invoices
    /\ ~WriteLocked
    /\ IF new_status \notin Statuses
       THEN /\ UNCHANGED invoices
            /\ sendlog' = NoSend
            /\ notes' = <<>>
       ELSE IF new_status = "sent"
       THEN /\ sendlog' = [inv |-> i,
                           ok |-> send_invoice_email(invoices[i], smtp_ok)]
            /\ invoices' = [invoices EXCEPT ![i].status = "sent"]
            /\ notes' = <<>>
       ELSE /\ invoices' = [invoices EXCEPT ![i].status = new_status]
            /\ sendlog' = NoSend
            /\ notes' = <<Notification("Invoice Status Changed", i)>>
    /\ exc' = NoExc
    /\ UNCHANGED <<now, wpc, wloc, spc, queue, cur, cyc, generated, created,
                   retired>>
    /\ UNCHANGED <<peer, fin, fout>>

\* update_invoice_status
UpdateInvoiceStatus(i, new_status, smtp_ok) ==
    /\ i \in DOMAIN invoices
    /\ ~WriteLocked
    /\ IF new_status \notin Statuses
       THEN /\ UNCHANGED invoices
            /\ sendlog' = NoSend
            /\ notes' = <<>>
       ELSE IF new_status = "sent"
       THEN LET ok == send_invoice_email(invoices[i], smtp_ok)
            IN  /\ sendlog' = [inv |-> i, ok |-> ok]
                /\ invoices' = IF ok
                               THEN [invoices EXCEPT ![i].status = "sent"]
                               ELSE invoices
                /\ notes' = <<>>
       ELSE /\ invoices' = [invoices EXCEPT ![i].status = new_status]
            /\ sendlog' = NoSend
            /\ notes' = <<Notification("Invoice Status Changed", i)>>
    /\ exc' = NoExc
    /\ UNCHANGED <<now, wpc, wloc, spc, queue, cur, cyc, generated, created, retired>>
    /\ UNCHANGED <<peer, fin, fout>>

\* customer_pay_invoice: the customer sees the invoices of the clients that
\* carry the customer's e-mail address
CustomerPayInvoice(i) ==
    /\ i \in DOMAIN invoices
    /\ ~WriteLocked
    /\ Clients[invoices[i].client_id].email = CustomerUser.email
    /\ IF invoices[i].status \in {"paid", "cancelled"}
       THEN /\ UNCHANGED invoices
            /\ notes' = <<>>
       ELSE /\ invoices' = [invoices EXCEPT ![i].status = "paid"]
            /\ notes' = <<Notification("Invoice Paid by Customer", i),
                          Notification("Payment Confirmation", i)>>
    /\ sendlog' = NoSend
    /\ exc' = NoExc
    /\ UNCHANGED <<now, wpc, wloc, spc, queue, cur, cyc, generated, created, retired>>
    /\ UNCHANGED <<peer, fin, fout>>

\* delete_invoice (the items go with the row: cascade delete-orphan)
DeleteInvoice(i) ==
    /\ i \in DOMAIN invoices
    /\ ~WriteLocked
    /\ invoices' = Remove(invoices, i)
    /\ retired' = retired \cup {invoices[i].invoice_number}
    /\ UNCHANGED created
    /\ sendlog' = NoSend
    /\ notes' = <<>>
    /\ exc' = NoExc
    /\ UNCHANGED <<now, wpc, wloc, spc, queue, cur, cyc, generated>>
    /\ UNCHANGED <<peer, fin, fout>>

\* the clock advances
Tick(d) ==
    /\ now' = now + d
    /\ sendlog' = NoSend
    /\ notes' = <<>>
    /\ exc' = NoExc
    /\ UNCHANGED <<invoices, wpc, wloc, spc, queue, cur, cyc, generated, created, retired>>
    /\ UNCHANGED <<peer, fin, fout>>

----------------------------------------------------------------------------
(* process_recurring_invoices *)

RECURSIVE Ascending(_)
\* the ids of a set of rows in rowid order
Ascending(S) ==
    IF S = {} THEN <<>>
    ELSE LET m == CHOOSE x \in S : \A y \in S : x <= y
         IN  <<m>> \o Ascending(S \ {m})

\* the filter of lines 352-356 (a NULL next_send_date compares as unknown)
DueTemplates(db, t) ==
    {i \in DOMAIN db : /\ db[i].is_recurring
                       /\ db[i].next_send_date # NoDate
                       /\ db[i].next_send_date <= t
                       /\ db[i].status # "cancelled"}

CopyItems(items) ==
    [k \in 1..Len(items) |->
        [quantity |-> items[k].quantity, unit_price |-> items[k].unit_price,
         amount |-> items[k].amount]]

\* a child that inherits the recurrence of its template
ChildInvoice_Inherit(template, number, today) ==
    calculate_totals(
        [invoice_number    |-> number,
         date              |-> today,
         due_date          |-> today + (template.due_date - template.date),
         status            |-> "draft",
         tax_rate          |-> template.tax_rate,
         subtotal          |-> 0,
         tax_amount        |-> 0,
         total_amount      |-> 0,
         is_recurring      |-> template.is_recurring,
         frequency         |-> template.frequency,
         initial_send_date |-> template.initial_send_date,
         next_send_date    |-> template.next_send_date,
         client_id         |-> template.client_id,
         items             |-> CopyItems(template.items)])

\* the child row of lines 366-395
ChildInvoice(template, number, today) ==
    calculate_totals(
        [invoice_number    |-> number,
         date              |-> today,
         due_date          |-> today + (template.due_date - template.date),
         status            |-> "draft",
         tax_rate          |-> template.tax_rate,
         subtotal          |-> 0,
         tax_amount        |-> 0,
         total_amount      |-> 0,
         is_recurring      |-> FALSE,
         frequency         |-> "",
         initial_send_date |-> NoDate,
         next_send_date    |-> NoDate,
         client_id         |-> template.client_id,
         items             |-> CopyItems(template.items)])

\* base is the template's next_send_date as the session has it loaded
NoCur == [now |-> NoDate, number |-> NoNum, id |-> NoId, base |-> NoDate]
NoCyc == [selected |-> {}, raised |-> {}, child |-> {}, start |-> <<>>,
          ended |-> "done"]

\* the next_send_date the session holds for template t: the value read by
\* the query of line 352 until the session's first commit expires it, the
\* row's present value after that
Loaded(expired, start, t) ==
    IF expired THEN invoices[t].next_send_date ELSE start[t]

\* an exception leaves the loop and the function: nothing catches it
Abort(t, err) ==
    /\ spc' = "idle"
    /\ queue' = <<>>
    /\ cur' = NoCur
    /\ exc' = Exc("cycle", err)
    /\ cyc' = [cyc EXCEPT !.raised = @ \cup {t}, !.ended = "raised"]

\* lines 350-359: take the time, select the due templates
CycleStart ==
    /\ spc = "idle"
    /\ LET due == DueTemplates(invoices, now)
       IN  /\ queue' = Ascending(due)
           /\ spc' = IF due = {} THEN "idle" ELSE "alloc"
           /\ cur' = IF due = {} THEN NoCur ELSE [NoCur EXCEPT !.now = now]
           /\ cyc' = [selected |-> due, raised |-> {}, child |-> {},
                      start |-> [i \in due |-> invoices[i].next_send_date],
                      ended |-> IF due = {} THEN "done" ELSE ""]
    /\ sendlog' = NoSend
    /\ notes' = <<>>
    /\ exc' = NoExc
    /\ UNCHANGED <<now, invoices, wpc, wloc, generated, created, retired>>
    /\ UNCHANGED <<peer, fin, fout>>

\* line 363: allocate the child's number
CycleAlloc ==
    /\ spc = "alloc"
    /\ LET t == Head(queue)
       IN  IF t \notin DOMAIN invoices
           THEN Abort(t, ObjectDeletedError)
           ELSE LET r == generate_invoice_number(invoices, AdminUser,
                             Clients[invoices[t].client_id], "INV", now)
                IN  IF r.raised # ""
                    THEN Abort(t, r.raised)
                    ELSE /\ cur' = [cur EXCEPT !.number = r.value,
                                !.base = Loaded(cyc.child # {}, cyc.start, t)]
                         /\ spc' = "flush"
                         /\ exc' = NoExc
                         /\ UNCHANGED <<queue, cyc>>
    /\ sendlog' = NoSend
    /\ notes' = <<>>
    /\ UNCHANGED <<now, invoices, wpc, wloc, generated, created, retired>>
    /\ UNCHANGED <<peer, fin, fout>>

\* CycleFlush with the INSERT committed at once, before the items exist
CycleFlush_Autocommit ==
    /\ spc = "flush"
    /\ peer.pc # "commit"
    /\ LET t == Head(queue)
       IN  IF t \notin DOMAIN invoices
           THEN Abort(t, ObjectDeletedError) /\ UNCHANGED invoices
           ELSE IF cur.number \in Numbers(invoices)
           THEN Abort(t, IntegrityError) /\ UNCHANGED invoices
           ELSE /\ cur' = [cur EXCEPT !.id = NewId(invoices)]
                /\ invoices' = Insert(invoices, NewId(invoices),
                       ChildInvoice([invoices[t] EXCEPT !.items = <<>>],
                                    cur.number, cur.now))
                /\ spc' = "commit"
                /\ exc' = NoExc
                /\ UNCHANGED <<queue, cyc>>
    /\ sendlog' = NoSend
    /\ notes' = <<>>
    /\ UNCHANGED <<now, wpc, wloc, generated, created, retired>>
    /\ UNCHANGED <<peer, fin, fout>>

\* lines 366-383: build the child and INSERT it (flush); the unique index on
\* invoice_number rejects a duplicate
CycleFlush ==
    /\ spc = "flush"
    /\ peer.pc # "commit"
    /\ LET t == Head(queue)
       IN  IF t \notin DOMAIN invoices
           THEN Abort(t, ObjectDeletedError)
           ELSE IF cur.number \in Numbers(invoices)
           THEN Abort(t, IntegrityError)
           ELSE /\ cur' = [cur EXCEPT !.id = NewId(invoices)]
                /\ spc' = "commit"
                /\ exc' = NoExc
                /\ UNCHANGED <<queue, cyc>>
    /\ sendlog' = NoSend
    /\ notes' = <<>>
    /\ UNCHANGED <<now, invoices, wpc, wloc, generated, created, retired>>
    /\ UNCHANGED <<peer, fin, fout>>

\* CycleCommit with the commit left for after the delivery
CycleCommit_Deferred ==
    /\ spc = "commit"
    /\ spc' = "deliver"
    /\ sendlog' = NoSend
    /\ notes' = <<>>
    /\ exc' = NoExc
    /\ UNCHANGED <<now, invoices, wpc, wloc, queue, cur, cyc, generated, created,
                   retired, peer, fin, fout>>

\* lines 385-400: copy the items, compute the totals, advance the template,
\* commit all of it
CycleCommit ==
    /\ spc = "commit"
    /\ LET t == Head(queue)
           child == ChildInvoice(invoices[t], cur.number, cur.now)
       IN  /\ invoices' = Insert(
                  [invoices EXCEPT ![t].next_send_date =
                       calculate_next_send_date(
                           [invoices[t] EXCEPT !.next_send_date = cur.base])],
                  cur.id, child)
           /\ generated' = generated \cup
                  {[template |-> t, due |-> cur.base, child |-> cur.id]}
           /\ cyc' = [cyc EXCEPT !.child = @ \cup {t}]
    /\ retired' = retired \ {cur.number}
    /\ created' = created + 1
    /\ spc' = "deliver"
    /\ sendlog' = NoSend
    /\ notes' = <<>>
    /\ exc' = NoExc
    /\ UNCHANGED <<now, wpc, wloc, queue, cur>>
    /\ UNCHANGED <<peer, fin, fout>>

\* CycleDeliver leaving the loop when the e-mail fails
CycleDeliver_StopOnFailure(smtp_ok) ==
    /\ spc = "deliver"
    /\ peer.pc # "commit"
    /\ IF cur.id \notin DOMAIN invoices
       THEN /\ Abort(Head(queue), ObjectDeletedError)
            /\ sendlog' = NoSend
            /\ notes' = <<>>
            /\ UNCHANGED invoices
       ELSE LET ok == send_invoice_email(invoices[cur.id], smtp_ok)
                rest == IF ok THEN Tail(queue) ELSE <<>>
            IN  /\ sendlog' = [inv |-> cur.id, ok |-> ok]
                /\ invoices' = IF ok
                               THEN [invoices EXCEPT ![cur.id].status = "sent"]
                               ELSE invoices
                /\ notes' = IF ok
                            THEN <<Notification("Recurring Invoice Sent", cur.id)>>
                            ELSE <<Notification("Recurring Email Failed", cur.id)>>
                /\ queue' = rest
                /\ spc' = IF rest = <<>> THEN "idle" ELSE "alloc"
                /\ cur' = [NoCur EXCEPT !.now = IF rest = <<>>
                                                THEN NoDate ELSE cur.now]
                /\ cyc' = [cyc EXCEPT !.ended = IF rest = <<>>
                                                 THEN "done" ELSE ""]
                /\ exc' = NoExc
    /\ UNCHANGED <<now, wpc, wloc, generated, created, retired>>
    /\ UNCHANGED <<peer, fin, fout>>

\* CycleDeliver recording nothing when the e-mail fails
CycleDeliver_SilentFailure(smtp_ok) ==
    /\ spc = "deliver"
    /\ peer.pc # "commit"
    /\ IF cur.id \notin DOMAIN invoices
       THEN /\ Abort(Head(queue), ObjectDeletedError)
            /\ sendlog' = NoSend
            /\ notes' = <<>>
            /\ UNCHANGED invoices
       ELSE LET ok == send_invoice_email(invoices[cur.id], smtp_ok)
            IN  /\ sendlog' = [inv |-> cur.id, ok |-> ok]
                /\ invoices' = IF ok
                               THEN [invoices EXCEPT ![cur.id].status = "sent"]
                               ELSE invoices
                /\ notes' = IF ok
                            THEN <<Notification("Recurring Invoice Sent", cur.id)>>
                            ELSE <<>>
                /\ queue' = Tail(queue)
                /\ spc' = IF Tail(queue) = <<>> THEN "idle" ELSE "alloc"
                /\ cur' = [NoCur EXCEPT !.now = IF Tail(queue) = <<>>
                                                THEN NoDate ELSE cur.now]
                /\ cyc' = [cyc EXCEPT !.ended = IF Tail(queue) = <<>>
                                                 THEN "done" ELSE ""]
                /\ exc' = NoExc
    /\ UNCHANGED <<now, wpc, wloc, generated, created, retired>>
    /\ UNCHANGED <<peer, fin, fout>>

\* lines 402-422: send the child, mark it sent only on success, notify
CycleDeliver(smtp_ok) ==
    /\ spc = "deliver"
    /\ peer.pc # "commit"
    /\ IF cur.id \notin DOMAIN invoices
       THEN /\ Abort(Head(queue), ObjectDeletedError)
            /\ sendlog' = NoSend
            /\ notes' = <<>>
            /\ UNCHANGED invoices
       ELSE LET ok == send_invoice_email(invoices[cur.id], smtp_ok)
            IN  /\ sendlog' = [inv |-> cur.id, ok |-> ok]
                /\ invoices' = IF ok
                               THEN [invoices EXCEPT ![cur.id].status = "sent"]
                               ELSE invoices
                /\ notes' = IF ok
                            THEN <<Notification("Recurring Invoice Sent", cur.id)>>
                            ELSE <<Notification("Recurring Email Failed", cur.id)>>
                /\ queue' = Tail(queue)
                /\ spc' = IF Tail(queue) = <<>> THEN "idle" ELSE "alloc"
                /\ cur' = [NoCur EXCEPT !.now = IF Tail(queue) = <<>>
                                                THEN NoDate ELSE cur.now]
                /\ cyc' = [cyc EXCEPT !.ended = IF Tail(queue) = <<>>
                                                 THEN "done" ELSE ""]
                /\ exc' = NoExc
    /\ UNCHANGED <<now, wpc, wloc, generated, created, retired>>
    /\ UNCHANGED <<peer, fin, fout>>

\* the worker process dies; SQLite discards the uncommitted transaction
CycleCrash ==
    /\ spc # "idle"
    /\ spc' = "idle"
    /\ queue' = <<>>
    /\ cur' = NoCur
    /\ cyc' = [cyc EXCEPT !.ended = "crashed"]
    /\ sendlog' = NoSend
    /\ notes' = <<>>
    /\ exc' = NoExc
    /\ UNCHANGED <<now, invoices, wpc, wloc, generated, created, retired>>
    /\ UNCHANGED <<peer, fin, fout>>

----------------------------------------------------------------------------
(* The scheduler of a second process.  Line 60 starts the scheduler in     *)
(* every process that imports the module with app.debug false or with      *)
(* WERKZEUG_RUN_MAIN set; line 1450 runs the application under the         *)
(* reloader, which executes the module in a parent and in a child process. *)
(* Each scheduler runs at most one instance of its own job: the job is     *)
(* added at lines 1410-1416 without max_instances, which defaults to 1.    *)

NoPeer == [started |-> FALSE, pc |-> "idle", queue |-> <<>>, cur |-> NoCur,
           start |-> <<>>, expired |-> FALSE]

\* line 60
SchedulerStarts(debug, run_main) == ~debug \/ run_main

PeerAbort(err) ==
    /\ peer' = [NoPeer EXCEPT !.started = peer.started]
    /\ exc' = Exc("peer", err)

\* lines 350-359 in the second process
PeerStart ==
    /\ peer.started
    /\ peer.pc = "idle"
    /\ LET due == DueTemplates(invoices, now)
       IN  peer' = [peer EXCEPT
                      !.queue = Ascending(due),
                      !.pc = IF due = {} THEN "idle" ELSE "alloc",
                      !.cur = IF due = {} THEN NoCur
                              ELSE [NoCur EXCEPT !.now = now],
                      !.start = [i \in due |-> invoices[i].next_send_date],
                      !.expired = FALSE]
    /\ sendlog' = NoSend
    /\ notes' = <<>>
    /\ exc' = NoExc
    /\ UNCHANGED <<now, invoices, wpc, wloc, spc, queue, cur, cyc, generated,
                   created, retired, fin, fout>>

\* line 363 in the second process
PeerAlloc ==
    /\ peer.pc = "alloc"
    /\ LET t == Head(peer.queue)
           r == generate_invoice_number(invoices, AdminUser,
                    Clients[invoices[t].client_id], "INV", now)
       IN  IF r.raised # ""
           THEN PeerAbort(r.raised)
           ELSE /\ peer' = [peer EXCEPT
                              !.cur.number = r.value,
                              !.cur.base = Loaded(peer.expired, peer.start, t),
                              !.pc = "flush"]
                /\ exc' = NoExc
    /\ sendlog' = NoSend
    /\ notes' = <<>>
    /\ UNCHANGED <<now, invoices, wpc, wloc, spc, queue, cur, cyc, generated,
                   created, retired, fin, fout>>

\* lines 366-383 in the second process
PeerFlush ==
    /\ peer.pc = "flush"
    /\ spc # "commit"
    /\ IF peer.cur.number \in Numbers(invoices)
       THEN PeerAbort(IntegrityError)
       ELSE /\ peer' = [peer EXCEPT !.cur.id = NewId(invoices),
                                    !.pc = "commit"]
            /\ exc' = NoExc
    /\ sendlog' = NoSend
    /\ notes' = <<>>
    /\ UNCHANGED <<now, invoices, wpc, wloc, spc, queue, cur, cyc, generated,
                   created, retired, fin, fout>>

\* lines 385-400 in the second process
PeerCommit ==
    /\ peer.pc = "commit"
    /\ LET t == Head(peer.queue)
           child == ChildInvoice(invoices[t], peer.cur.number, peer.cur.now)
       IN  /\ invoices' = Insert(
                  [invoices EXCEPT ![t].next_send_date =
                       calculate_next_send_date(
                           [invoices[t] EXCEPT
                               !.next_send_date = peer.cur.base])],
                  peer.cur.id, child)
           /\ generated' = generated \cup
                  {[template |-> t, due |-> peer.cur.base,
                    child |-> peer.cur.id]}
    /\ retired' = retired \ {peer.cur.number}
    /\ created' = created + 1
    /\ peer' = [peer EXCEPT !.pc = "deliver", !.expired = TRUE]
    /\ sendlog' = NoSend
    /\ notes' = <<>>
    /\ exc' = NoExc
    /\ UNCHANGED <<now, wpc, wloc, spc, queue, cur, cyc, fin, fout>>

\* lines 402-422 in the second process
PeerDeliver(smtp_ok) ==
    /\ peer.pc = "deliver"
    /\ spc # "commit"
    /\ LET id == peer.cur.id
           ok == send_invoice_email(invoices[id], smtp_ok)
           rest == Tail(peer.queue)
       IN  /\ sendlog' = [inv |-> id, ok |-> ok]
           /\ invoices' = IF ok THEN [invoices EXCEPT ![id].status = "sent"]
                          ELSE invoices
           /\ notes' = IF ok
                       THEN <<Notification("Recurring Invoice Sent", id)>>
                       ELSE <<Notification("Recurring Email Failed", id)>>
           /\ peer' = IF rest = <<>>
                      THEN [NoPeer EXCEPT !.started = peer.started]
                      ELSE [peer EXCEPT !.queue = rest, !.pc = "alloc",
                                        !.cur = [NoCur EXCEPT !.now = peer.cur.now]]
    /\ exc' = NoExc
    /\ UNCHANGED <<now, wpc, wloc, spc, queue, cur, cyc, generated, created,
                   retired, fin, fout>>

----------------------------------------------------------------------------
(* Calls of the two pure functions *)

NoCall == [fn |-> ""]
NoOut == [done |-> FALSE, raised |-> "", number |-> NoNum, date |-> NoDate]

\* line 878 (and line 363, which passes no prefix): the request's prefix is
\* upper-cased at line 850 and replaced by 'INV' when it is empty
CallGenerate ==
    /\ fin.fn = "generate_invoice_number"
    /\ ~fout.done
    /\ LET r == generate_invoice_number(fin.db, fin.user, fin.client,
                    IF fin.prefix = "" THEN "INV" ELSE Upper(fin.prefix),
                    fin.today)
       IN  fout' = [done |-> TRUE, raised |-> r.raised, number |-> r.value,
                    date |-> NoDate]
    /\ UNCHANGED <<now, invoices, wpc, wloc, spc, queue, cur, cyc, generated,
                   created, retired, sendlog, notes, exc, peer, fin>>

\* line 398
CallNextSendDate ==
    /\ fin.fn = "calculate_next_send_date"
    /\ ~fout.done
    /\ fout' = [done |-> TRUE, raised |-> "", number |-> NoNum,
                date |-> calculate_next_send_date(fin.inv)]
    /\ UNCHANGED <<now, invoices, wpc, wloc, spc, queue, cur, cyc, generated,
                   created, retired, sendlog, notes, exc, peer, fin>>

----------------------------------------------------------------------------
(* Initial state: the database created at start-up holds no invoice; the   *)
(* application runs as one process, whose scheduler is started            *)

Init ==
    /\ now = 0
    /\ invoices = <<>>
    /\ wpc = [w \in Web |-> "idle"]
    /\ wloc = [w \in Web |-> NoLoc]
    /\ spc = "idle"
    /\ queue = <<>>
    /\ cur = NoCur
    /\ cyc = NoCyc
    /\ generated = {}
    /\ created = 0
    /\ retired = {}
    /\ sendlog = NoSend
    /\ notes = <<>>
    /\ exc = NoExc
    /\ peer = NoPeer
    /\ fin = NoCall
    /\ fout = NoOut

\* the application started by line 1450: the process that serves the requests
\* is the reloader's child (WERKZEUG_RUN_MAIN set); the reloader's parent has
\* imported the module too, with app.debug as the environment gives it
InitRun ==
    \E debug \in BOOLEAN :
        /\ SchedulerStarts(debug, TRUE)
        /\ now = 0
        /\ invoices = <<>>
        /\ wpc = [w \in Web |-> "idle"]
        /\ wloc = [w \in Web |-> NoLoc]
        /\ spc = "idle"
        /\ queue = <<>>
        /\ cur = NoCur
        /\ cyc = NoCyc
        /\ generated = {}
        /\ created = 0
        /\ retired = {}
        /\ sendlog = NoSend
        /\ notes = <<>>
        /\ exc = NoExc
        /\ peer = [NoPeer EXCEPT !.started = SchedulerStarts(debug, FALSE)]
        /\ fin = NoCall
        /\ fout = NoOut

----------------------------------------------------------------------------
(* Inputs *)

Form(c, rec, freq, due, tax, items, prefix) ==
    [client_id |-> c, is_recurring |-> rec, frequency |-> freq, due_in |-> due,
     tax_rate |-> tax, items |-> items, invoice_prefix |-> prefix]

\* one-off invoices for either client: qty 2 at 50.00, 8 % tax, due in a week
AllocForms ==
    {Form(c, FALSE, "", 7, 8, <<Item(2, 5000)>>, "") : c \in ClientIds}

\* numbers an admin types into update_invoice_number: the last four-digit
\* number of the month, and one whose trailing segment is not a number
RenameTargets ==
    {Num("INV", 202401, <<9, 9, 9, 9>>), Num("INV", 202401, <<CharX>>)}

----------------------------------------------------------------------------
(* Number allocation under concurrent requests, deletion and renumbering *)

NextAlloc ==
    \/ /\ Population < MaxInvoices
       /\ \E w \in Web, f \in AllocForms : WebAlloc(w, f)
    \/ \E w \in Web : WebPersist(w)
    \/ \E w \in Web, ok \in BOOLEAN : WebDeliver(w, ok)
    \/ \E i \in DOMAIN invoices : DeleteInvoice(i)
    \/ \E i \in DOMAIN invoices, n \in RenameTargets : UpdateInvoiceNumber(i, n)

SpecAlloc == Init /\ [][NextAlloc]_vars

UniqueNumbers ==
    \A i, j \in DOMAIN invoices :
        i # j => invoices[i].invoice_number # invoices[j].invoice_number

----------------------------------------------------------------------------
(* The scheduler's cycle with the admin and customer routes around it *)

\* recurring invoices: daily and monthly for the client with its own prefix,
\* weekly for the other one
CycleForms ==
    {Form("c1", TRUE, "daily", 7, 8, <<Item(2, 5000)>>, ""),
     Form("c1", TRUE, "monthly", 7, 8, <<Item(2, 5000)>>, ""),
     Form("c2", TRUE, "weekly", 7, 8, <<Item(2, 5000)>>, "")}

TickDays == {10, 30}

\* a number typed into update_invoice_number whose trailing segment is not
\* a number
BadTargets == {Num("ACME", 202401, <<CharX>>)}

\* the cycle starts only if the rows it will insert fit the bound
Room(rows) == created + Cardinality(DueTemplates(invoices, now)) <= rows

Next ==
    \/ /\ created < MaxPages
       /\ \E f \in CycleForms, ok \in BOOLEAN : CreateInvoicePage(f, ok)
    \/ Room(MaxRows) /\ CycleStart
    \/ CycleAlloc
    \/ CycleFlush
    \/ CycleCommit
    \/ \E ok \in BOOLEAN : CycleDeliver(ok)
    \/ CycleCrash
    \/ \E d \in TickDays : now + d <= MaxNow /\ Tick(d)
    \/ \E i \in DOMAIN invoices, n \in BadTargets : UpdateInvoiceNumber(i, n)

Spec == Init /\ [][Next]_vars

(* The status routes around creation and the scheduler's cycle *)

\* a daily recurring invoice and a one-off invoice for the client with an
\* e-mail address
StatusForms ==
    {Form("c1", TRUE, "daily", 7, 8, <<Item(2, 5000)>>, ""),
     Form("c1", FALSE, "", 7, 8, <<Item(2, 5000)>>, "")}

StatusTicks == {30}

\* the statuses asked of update_invoice_status: the two of the delivery gate
\* and the two terminal ones
StatusRequests == {"draft", "sent", "paid", "cancelled"}

NextStatus ==
    \/ /\ created < StatusPages
       /\ \E f \in StatusForms, ok \in BOOLEAN : CreateInvoicePage(f, ok)
    \/ \E i \in DOMAIN invoices, st \in StatusRequests :
           \E ok \in (IF st = "sent" THEN BOOLEAN ELSE {TRUE}) :
               UpdateInvoiceStatus(i, st, ok)
    \/ \E i \in DOMAIN invoices : CustomerPayInvoice(i)
    \/ Room(StatusRows) /\ CycleStart
    \/ CycleAlloc
    \/ CycleFlush
    \/ CycleCommit
    \/ \E ok \in BOOLEAN : CycleDeliver(ok)
    \/ \E d \in StatusTicks : now + d <= MaxNow /\ Tick(d)

SpecStatus == Init /\ [][NextStatus]_vars

(* The cycles of two processes started by line 1450 *)

OverlapForms ==
    {Form("c1", TRUE, "daily", 7, 8, <<Item(2, 5000)>>, ""),
     Form("c2", TRUE, "weekly", 7, 8, <<Item(2, 5000)>>, "")}

OverlapTicks == {10}

\* a cycle starts only if the rows the two cycles will insert fit the bound
RoomBoth(rows) ==
    created + Len(queue) + Len(peer.queue)
        + Cardinality(DueTemplates(invoices, now)) <= rows

NextOverlap ==
    \/ /\ created < OverlapPages
       /\ \E f \in OverlapForms, ok \in BOOLEAN : CreateInvoicePage(f, ok)
    \/ RoomBoth(OverlapRows) /\ CycleStart
    \/ CycleAlloc
    \/ CycleFlush
    \/ CycleCommit
    \/ \E ok \in BOOLEAN : CycleDeliver(ok)
    \/ RoomBoth(OverlapRows) /\ PeerStart
    \/ PeerAlloc
    \/ PeerFlush
    \/ PeerCommit
    \/ \E ok \in BOOLEAN : PeerDeliver(ok)
    \/ \E d \in OverlapTicks : now + d <= MaxNow /\ Tick(d)

SpecOverlap == InitRun /\ [][NextOverlap]_vars

(* Invoices with one to three items and several tax rates, created by the  *)
(* form and generated by the cycle                                         *)

TotalsItems ==
    {<<Item(2, 5000)>>,
     <<Item(1, 1900), Item(3, 300)>>,
     <<Item(2, 5000), Item(1, 100), Item(4, 2500)>>}

TotalsForms ==
    {Form("c1", rec, IF rec THEN "daily" ELSE "", 7, tax, items, "") :
        rec \in BOOLEAN, tax \in {0, 8, 25}, items \in TotalsItems}

TotalsTicks == {10}

NextTotals ==
    \/ /\ created < TotalsPages
       /\ \E f \in TotalsForms, ok \in BOOLEAN : CreateInvoicePage(f, ok)
    \/ Room(TotalsRows) /\ CycleStart
    \/ CycleAlloc
    \/ CycleFlush
    \/ CycleCommit
    \/ \E ok \in BOOLEAN : CycleDeliver(ok)
    \/ \E d \in TotalsTicks : now + d <= MaxNow /\ Tick(d)

SpecTotals == Init /\ [][NextTotals]_vars

(* The cycle over a database file that start-up found in place: db.create_all *)
(* (line 1406) keeps the rows of an existing file.  The file holds a        *)
(* recurring invoice whose frequency is none of daily, weekly and monthly   *)
(* and whose next_send_date is set: the columns of lines 479-482 admit it,  *)
(* while create_invoice_page would have left its next_send_date NULL.       *)

YearlyTemplate ==
    [NewInvoice(Form("c1", TRUE, "yearly", 7, 8, <<Item(2, 5000)>>, ""),
                Num("ACME", 202401, Format04(1)), 0)
        EXCEPT !.next_send_date = 1]

InitStored ==
    /\ now = 0
    /\ invoices = <<YearlyTemplate>>
    /\ wpc = [w \in Web |-> "idle"]
    /\ wloc = [w \in Web |-> NoLoc]
    /\ spc = "idle"
    /\ queue = <<>>
    /\ cur = NoCur
    /\ cyc = NoCyc
    /\ generated = {}
    /\ created = 1
    /\ retired = {}
    /\ sendlog = NoSend
    /\ notes = <<>>
    /\ exc = NoExc
    /\ peer = NoPeer
    /\ fin = NoCall
    /\ fout = NoOut

StoredForms ==
    {Form("c1", TRUE, "daily", 7, 8, <<Item(2, 5000)>>, ""),
     Form("c2", TRUE, "weekly", 7, 8, <<Item(2, 5000)>>, "")}

StoredTicks == {10}

NextStored ==
    \/ /\ created < StoredPages
       /\ \E f \in StoredForms, ok \in BOOLEAN : CreateInvoicePage(f, ok)
    \/ Room(StoredRows) /\ CycleStart
    \/ CycleAlloc
    \/ CycleFlush
    \/ CycleCommit
    \/ \E ok \in BOOLEAN : CycleDeliver(ok)
    \/ \E d \in StoredTicks : now + d <= MaxNow /\ Tick(d)

SpecStored == InitStored /\ [][NextStored]_vars

(* Renumbering around concurrent creations and the scheduler's cycle *)

\* a daily recurring invoice for the client with its own prefix and a
\* one-off invoice for the other one
RenameForms ==
    {Form("c1", TRUE, "daily", 7, 8, <<Item(2, 5000)>>, ""),
     Form("c2", FALSE, "", 7, 8, <<Item(2, 5000)>>, "")}

\* numbers an admin types into update_invoice_number: the number the next
\* allocation of one scope would give, and the first number of the other
OverrideTargets ==
    {Num("ACME", 202401, Format04(2)), Num("INV", 202401, Format04(1))}

RenameTicks == {30}

NextRename ==
    \/ /\ Population < RenamePages
       /\ \E w \in Web, f \in RenameForms : WebAlloc(w, f)
    \/ \E w \in Web : WebPersist(w)
    \/ \E w \in Web, ok \in BOOLEAN : WebDeliver(w, ok)
    \/ \E i \in DOMAIN invoices, n \in OverrideTargets :
           UpdateInvoiceNumber(i, n)
    \/ Room(RenameRows) /\ CycleStart
    \/ CycleAlloc
    \/ CycleFlush
    \/ CycleCommit
    \/ \E ok \in BOOLEAN : CycleDeliver(ok)
    \/ \E d \in RenameTicks : now + d <= MaxNow /\ Tick(d)

SpecRename == Init /\ [][NextRename]_vars

(* The cycle fired again and again: the job of lines 1410-1416 runs every   *)
(* hour for as long as the process lives, and a run that has started goes   *)
(* on to its end or to an exception                                         *)

\* monthly recurring invoices for either client
LiveForms ==
    {Form(c, TRUE, "monthly", 7, 8, <<Item(2, 5000)>>, "") : c \in ClientIds}

LiveTicks == {30}

\* every template becomes due once: the cycle has room for a child of each
NextLive ==
    \/ /\ created < LivePages
       /\ now = 0
       /\ \E f \in LiveForms, ok \in BOOLEAN : CreateInvoicePage(f, ok)
    \/ \E i \in DOMAIN invoices, n \in BadTargets : UpdateInvoiceNumber(i, n)
    \/ CycleStart
    \/ CycleAlloc
    \/ CycleFlush
    \/ CycleCommit
    \/ \E ok \in BOOLEAN : CycleDeliver(ok)
    \/ \E d \in LiveTicks : now + d <= MaxNow /\ Tick(d)

SpecLive ==
    /\ Init
    /\ [][NextLive]_vars
    /\ WF_vars(CycleStart)
    /\ WF_vars(CycleAlloc)
    /\ WF_vars(CycleFlush)
    /\ WF_vars(CycleCommit)
    /\ WF_vars(\E ok \in BOOLEAN : CycleDeliver(ok))

(* Due dates typed into the form: the form's date field takes any date,    *)
(* line 875 parses it and nothing compares it with the invoice date        *)

\* due in a week, today, and three days ago
DueForms ==
    {Form("c1", rec, IF rec THEN "daily" ELSE "", due, 8, <<Item(2, 5000)>>, "") :
        rec \in BOOLEAN, due \in {7, 0, -3}}

DueTicks == {10}

NextDue ==
    \/ /\ created < DuePages
       /\ \E f \in DueForms, ok \in BOOLEAN : CreateInvoicePage(f, ok)
    \/ Room(DueRows) /\ CycleStart
    \/ CycleAlloc
    \/ CycleFlush
    \/ CycleCommit
    \/ \E ok \in BOOLEAN : CycleDeliver(ok)
    \/ \E d \in DueTicks : now + d <= MaxNow /\ Tick(d)

SpecDue == Init /\ [][NextDue]_vars

(* The two pure functions on drawn arguments *)

\* invoice numbers a table can hold: of the scope INV-202401 with the
\* sequence below and beyond 9999 and with a trailing segment that is no
\* number, of another month, and of other prefixes
NumberPool ==
    <<Num("INV", 202401, <<0, 0, 0, 1>>),
      Num("INV", 202401, <<0, 0, 0, 7>>),
      Num("INV", 202401, <<9, 9, 9, 9>>),
      Num("INV", 202401, <<1, 0, 0, 0, 0>>),
      Num("INV", 202401, <<CharX>>),
      Num("INV", 202402, <<0, 0, 0, 3>>),
      Num("ACME", 202401, <<0, 0, 0, 5>>),
      Num("X", 202401, <<0, 0, 0, 2>>)>>

Tables ==
    {[i \in S |-> [invoice_number |-> NumberPool[i]]] :
        S \in {T \in SUBSET (1..Len(NumberPool)) : Cardinality(T) <= MaxDbRows}}

\* the admin with the default prefix, and with the prefix emptied in the
\* settings
Users == {AdminUser, [AdminUser EXCEPT !.invoice_prefix = ""]}

GenerateCalls ==
    {[fn |-> "generate_invoice_number", db |-> db, user |-> u,
      client |-> Clients[c], prefix |-> p, today |-> d] :
        db \in Tables, u \in Users, c \in ClientIds, p \in {"", "x"},
        d \in {0, 40}}

NextSendDateCalls ==
    {[fn |-> "calculate_next_send_date",
      inv |-> [is_recurring |-> r, frequency |-> f, next_send_date |-> n,
               initial_send_date |-> i, date |-> 2]] :
        r \in BOOLEAN, f \in {"", "daily", "weekly", "monthly", "yearly"},
        n \in {NoDate, 20}, i \in {NoDate, 5}}

InitPure ==
    /\ fin \in GenerateCalls \cup NextSendDateCalls
    /\ fout = NoOut
    /\ now = 0
    /\ invoices = <<>>
    /\ wpc = [w \in Web |-> "idle"]
    /\ wloc = [w \in Web |-> NoLoc]
    /\ spc = "idle"
    /\ queue = <<>>
    /\ cur = NoCur
    /\ cyc = NoCyc
    /\ generated = {}
    /\ created = 0
    /\ retired = {}
    /\ sendlog = NoSend
    /\ notes = <<>>
    /\ exc = NoExc
    /\ peer = NoPeer

NextPure ==
    \/ CallGenerate
    \/ CallNextSendDate

SpecPure == InitPure /\ [][NextPure]_vars

----------------------------------------------------------------------------
(* Claims on the cycle *)

Min(S) == CHOOSE x \in S : \A y \in S : x <= y

\* the due dates a template has left behind: initial_send_date + period, ...,
\* up to but not including its present next_send_date
PastDues(row) ==
    IF ~row.is_recurring \/ row.next_send_date = NoDate
       \/ Period(row.frequency) = 0
    THEN {}
    ELSE {d \in 0..row.next_send_date :
             /\ d >= row.initial_send_date + Period(row.frequency)
             /\ d < row.next_send_date
             /\ (d - row.initial_send_date) % Period(row.frequency) = 0}

TotalsComputed(row) ==
    /\ row.subtotal = SumAmounts(row.items)
    /\ row.tax_amount * 100 = row.subtotal * row.tax_rate
    /\ row.total_amount = row.subtotal + row.tax_amount

\* C2: when a cycle has ended, by running to its end or by an exception,
\* every template it selected whose own processing did not raise has its
\* child committed.
C2_Isolation ==
    (spc = "idle" /\ cyc.ended \in {"done", "raised"})
    => (cyc.selected \ cyc.raised) \subseteq cyc.child

\* C3: in every committed state a generated child carries the items of its
\* template and the totals computed from them, and every due date a template
\* has left behind has its committed child.
C3_AtomicUnit ==
    /\ \A i \in DOMAIN invoices :
           /\ invoices[i].items # <<>>
           /\ TotalsComputed(invoices[i])
    /\ \A g \in generated :
           /\ g.child \in DOMAIN invoices
           /\ invoices[g.child].items = invoices[g.template].items
    /\ \A t \in DOMAIN invoices : \A d \in PastDues(invoices[t]) :
           \E g \in generated : g.template = t /\ g.due = d

\* a cycle gave one template its child and died while processing the next:
\* that template has no child and its next_send_date has not moved
C3_Witness ==
    /\ cyc.ended = "crashed"
    /\ cyc.child # {}
    /\ \E t \in cyc.selected \ cyc.child :
           /\ invoices[t].next_send_date = cyc.start[t]
           /\ \A g \in generated : ~(g.template = t /\ g.due = cyc.start[t])

\* C5: a template processed in the cycle has the next_send_date computed
\* from the value it had when the cycle started, whatever the delivery of its
\* child gave; and a failed delivery moves the cycle on to the next selected
\* template without touching any next_send_date.
C5_Independent ==
    /\ [](\A t \in cyc.child :
             invoices[t].next_send_date =
                 calculate_next_send_date(
                     [invoices[t] EXCEPT !.next_send_date = cyc.start[t]]))
    /\ [][(spc = "deliver" /\ sendlog'.inv = cur.id /\ ~sendlog'.ok)
          => /\ queue' = Tail(queue)
             /\ queue' # <<>> => spc' = "alloc"
             /\ \A t \in DOMAIN invoices :
                    invoices'[t].next_send_date = invoices[t].next_send_date
         ]_vars

\* a cycle over two templates has ended; the child of the first one failed
\* to be delivered and the second one was processed all the same
C5_Witness ==
    /\ spc = "idle"
    /\ cyc.ended = "done"
    /\ Cardinality(cyc.child) = 2
    /\ \E g \in generated :
           /\ g.template = Min(cyc.child)
           /\ g.due = cyc.start[g.template]
           /\ invoices[g.child].status = "draft"

\* C6: the step that processes a template makes its next_send_date strictly
\* later, and no step makes a recurring invoice's next_send_date null.
C6_Monotonic ==
    [][/\ (spc = "commit" /\ spc' = "deliver")
          => invoices'[Head(queue)].next_send_date
                 > invoices[Head(queue)].next_send_date
       /\ \A t \in DOMAIN invoices \cap DOMAIN invoices' :
             invoices'[t].next_send_date # invoices[t].next_send_date
             => /\ invoices'[t].next_send_date # NoDate
                /\ invoices'[t].next_send_date > invoices[t].next_send_date
      ]_vars

\* one template has been processed twice
C6_Witness ==
    \E g, h \in generated : g.template = h.template /\ g.due < h.due

----------------------------------------------------------------------------
(* Claims on the status changes *)

StatusBefore(i) == IF i \in DOMAIN invoices THEN invoices[i].status ELSE "draft"

\* C4: a status becomes 'sent' only in a step whose send_invoice_email call
\* for that invoice returned success, and a step whose call failed leaves
\* the status of that invoice as it was.
C4_Gated ==
    [][\A i \in DOMAIN invoices' :
          /\ (invoices'[i].status = "sent" /\ StatusBefore(i) # "sent")
             => sendlog' = [inv |-> i, ok |-> TRUE]
          /\ (sendlog'.inv = i /\ ~sendlog'.ok)
             => invoices'[i].status = StatusBefore(i)
      ]_vars

\* the last step tried to send a paid invoice and failed: it is still paid
C4_Witness ==
    /\ sendlog.inv \in DOMAIN invoices
    /\ ~sendlog.ok
    /\ invoices[sendlog.inv].status = "paid"

\* C7: a status-change request on a paid or cancelled invoice leaves its
\* status as it is.
C7_Terminal ==
    [][spc' = spc
       => \A i \in DOMAIN invoices \cap DOMAIN invoices' :
              invoices[i].status \in {"paid", "cancelled"}
              => invoices'[i].status = invoices[i].status
      ]_vars

----------------------------------------------------------------------------
(* Claims on number allocation *)

EverAssigned == retired \cup Numbers(invoices)

\* slot w allocates a number in this step
Allocates(w) == wpc[w] = "idle" /\ wpc'[w] = "persist"

\* slot w runs its INSERT in this step and the number is already taken
Conflicts(w) ==
    /\ wpc[w] = "persist"
    /\ wloc[w].number \in Numbers(invoices)
    /\ <<wpc[w], wloc[w]>> # <<wpc'[w], wloc'[w]>>

SeqOf(n) == ParseInt(n.tail)

\* C1: concurrent creations in one scope all succeed with distinct numbers:
\* no two rows share an invoice_number and no creation ends in the unique
\* index rejecting its number.
C1_AllCreated ==
    /\ UniqueNumbers
    /\ exc.err # IntegrityError

\* C8: when no other request is between allocation and commit, the number
\* allocated has a sequence value strictly greater than that of every row of
\* its scope, also beyond 9999.
C8_Increasing ==
    [][\A w \in Web :
          (Allocates(w) /\ \A v \in Web : wpc[v] # "persist")
          => \A i \in DOMAIN invoices :
                 (/\ Like(invoices[i].invoice_number, wloc'[w].number.prefix,
                          wloc'[w].number.ym)
                  /\ IsNumeric(invoices[i].invoice_number.tail))
                 => SeqOf(invoices[i].invoice_number) < SeqOf(wloc'[w].number)
      ]_vars

\* C9: generate_invoice_number never returns a number that some invoice,
\* deleted or not, was given earlier.
C9_NeverReused ==
    [][\A w \in Web : Allocates(w) => wloc'[w].number \notin EverAssigned]_vars

\* C10: a request whose INSERT is rejected by the unique index allocates
\* again from a fresh read and carries on with a number that is free.
C10_Retried ==
    [][\A w \in Web :
          Conflicts(w) => /\ wpc'[w] = "persist"
                          /\ wloc'[w].number \notin Numbers(invoices')]_vars

\* the step is the cycle's delivery of the child cur.id
Delivers ==
    /\ spc = "deliver"
    /\ spc' # "deliver"
    /\ cyc'.ended \notin {"crashed", "raised"}

\* C12: whenever the cycle is at the delivery of a child, the child is a
\* committed draft row with its items and totals; the delivery step sends
\* that committed row, and a cycle that dies at or after the delivery leaves
\* the row in place.
C12_PersistFirst ==
    /\ [](spc = "deliver"
           => /\ cur.id \in DOMAIN invoices
              /\ invoices[cur.id].status = "draft"
              /\ invoices[cur.id].items # <<>>
              /\ TotalsComputed(invoices[cur.id])
              /\ \E g \in generated : g.child = cur.id)
    /\ [][/\ Delivers => sendlog'.inv = cur.id
          /\ (spc = "deliver" /\ cyc'.ended = "crashed")
              => /\ cur.id \in DOMAIN invoices'
                 /\ invoices'[cur.id] = invoices[cur.id]
         ]_vars

\* the cycle died while delivering the child of its last template: every
\* selected template has its child, and that child is a committed draft
C12_Witness ==
    /\ cyc.ended = "crashed"
    /\ cyc.selected # {}
    /\ cyc.child = cyc.selected
    /\ \E g \in generated :
           /\ g.template \in cyc.child
           /\ g.due = cyc.start[g.template]
           /\ invoices[g.child].status = "draft"
           /\ invoices[g.child].items # <<>>

CycleTitles == {"Recurring Invoice Sent", "Recurring Email Failed"}

C14_ExactlyDue ==
    (spc = "idle" /\ cyc.ended \in {"done", "raised"})
    => /\ \A t \in cyc.child :
              /\ invoices[t].is_recurring
              /\ cyc.start[t] # NoDate
              /\ cyc.start[t] <= now
       /\ \A t \in DOMAIN invoices :
              (/\ t \in DOMAIN cyc.start
               /\ invoices[t].is_recurring
               /\ cyc.start[t] # NoDate
               /\ cyc.start[t] <= now) => t \in cyc.child

\* C18: every persisted invoice has the amount of each item equal to
\* quantity times unit price, subtotal equal to the sum of the amounts of
\* all its items, tax_amount equal to subtotal * tax_rate / 100 and
\* total_amount equal to subtotal + tax_amount; one item of quantity 2 at
\* 50.00 with 8 % tax gives 100.00 / 8.00 / 108.00.
C18_Totals ==
    \A i \in DOMAIN invoices :
        LET row == invoices[i]
        IN  /\ \A k \in 1..Len(row.items) :
                   row.items[k].amount
                       = row.items[k].quantity * row.items[k].unit_price
            /\ row.subtotal = SumAmounts(row.items)
            /\ 100 * row.tax_amount = row.subtotal * row.tax_rate
            /\ row.total_amount = row.subtotal + row.tax_amount
            /\ (row.items = <<Item(2, 5000)>> /\ row.tax_rate = 8)
                   => /\ row.subtotal = 10000
                      /\ row.tax_amount = 800
                      /\ row.total_amount = 10800

\* a child generated from a template of three items at 25 % tax: 201.00 /
\* 50.25 / 251.25
C18_Witness ==
    \E g \in generated :
        /\ Len(invoices[g.child].items) = 3
        /\ invoices[g.child].subtotal = 20100
        /\ invoices[g.child].tax_amount = 5025
        /\ invoices[g.child].total_amount = 25125

\* C19: every invoice generated by a cycle is committed with status
\* 'draft', and as long as it exists it is not recurring and has no
\* frequency, initial_send_date or next_send_date; no cycle selects a
\* generated child as a template and no child has a child of its own.
C19_ChildrenNeverRecur ==
    /\ [](\A g \in generated :
            /\ g.child \notin cyc.selected
            /\ \A h \in generated : h.template # g.child
            /\ g.child \in DOMAIN invoices =>
                   /\ ~invoices[g.child].is_recurring
                   /\ invoices[g.child].frequency = ""
                   /\ invoices[g.child].initial_send_date = NoDate
                   /\ invoices[g.child].next_send_date = NoDate)
    /\ [][\A g \in generated' \ generated :
              invoices'[g.child].status = "draft"]_vars

\* a later cycle has run over a table holding the child of an earlier one:
\* it generated from the same template again and left the child alone
C19_Witness ==
    \E g, h \in generated :
        /\ g.template = h.template
        /\ g.child < h.child
        /\ cyc.selected = {g.template}
        /\ g.child \in DOMAIN invoices
        /\ ~invoices[g.child].is_recurring

\* C20: update_invoice_status asked for the status the invoice already
\* has is a no-op: the row is unchanged, no notification is recorded, no
\* delivery is attempted and no error is raised.
C20_Reentrant ==
    [][\A i \in DOMAIN invoices, ok \in BOOLEAN :
           UpdateInvoiceStatus(i, invoices[i].status, ok) =>
               /\ invoices' = invoices
               /\ notes' = <<>>
               /\ sendlog' = NoSend
               /\ exc' = NoExc]_vars

\* C21: a request of update_invoice_status that changes the status to
\* 'paid', 'overdue' or 'cancelled' records exactly one notification, about
\* that invoice; one that changes it back to 'draft' records none.
C21_Informational ==
    [][\A i \in DOMAIN invoices, st \in {"draft", "paid", "overdue", "cancelled"} :
           (st # invoices[i].status /\ UpdateInvoiceStatus(i, st, TRUE))
           => IF st = "draft"
              THEN notes' = <<>>
              ELSE notes' = <<Notification("Invoice Status Changed", i)>>
      ]_vars

\* C22: the status of an invoice becomes 'paid' or 'overdue' only in a step
\* that finds it 'sent'.
C22_LifecycleOrder ==
    [][\A i \in DOMAIN invoices \cap DOMAIN invoices' :
           (/\ invoices'[i].status \in {"paid", "overdue"}
            /\ invoices'[i].status # invoices[i].status)
           => invoices[i].status = "sent"
      ]_vars

\* a template the cycle cannot advance: its frequency has no period
Malformed(row) == row.is_recurring /\ Period(row.frequency) = 0

C24_OverrideUnique ==
    /\ [](\A i, j \in DOMAIN invoices :
             invoices[i].invoice_number = invoices[j].invoice_number => i = j)
    /\ [][\A i \in DOMAIN invoices, n \in OverrideTargets :
              UpdateInvoiceNumber(i, n)
              => IF n \in {invoices[j].invoice_number :
                               j \in DOMAIN invoices \ {i}}
                 THEN invoices' = invoices
                 ELSE /\ invoices'[i].invoice_number = n
                      /\ \A j \in DOMAIN invoices \ {i} :
                             invoices'[j] = invoices[j]
         ]_vars

\* a template was renumbered to ACME-202401-0002, the number the cycle
\* would have allocated next, and a request to put that number on another
\* invoice too has left it where it was: the child of the template was
\* given ACME-202401-0003
C24_Witness ==
    \E g \in generated :
        /\ invoices[g.template].invoice_number
               = Num("ACME", 202401, Format04(2))
        /\ invoices[g.child].invoice_number
               = Num("ACME", 202401, Format04(3))

\* C26: in every reachable state generate_invoice_number returns a number
\* for either client, and no creation or cycle has ended in the ValueError
\* of a trailing segment that does not parse.
C26_AllocationNeverFails ==
    /\ \A c \in ClientIds :
           generate_invoice_number(invoices, AdminUser, Clients[c], "INV",
                                   now).raised = ""
    /\ exc.err # ValueError

\* the children of template t
ChildrenOf(t) == {g \in generated : g.template = t}

\* C28: a cycle generates at most one child from a template, and exactly
\* one once it has ended, by running to its end or by an exception; the
\* template's next_send_date is then one period after the value it had when
\* the cycle started, whatever the time of the cycle, so a template still
\* behind the clock is due again; and at all times a template has one child
\* for each period its next_send_date has advanced.
C28_CatchUp ==
    /\ \A t \in DOMAIN invoices :
           (invoices[t].is_recurring /\ Period(invoices[t].frequency) # 0)
           => Cardinality(ChildrenOf(t)) * Period(invoices[t].frequency)
                  = invoices[t].next_send_date
                        - (invoices[t].initial_send_date
                               + Period(invoices[t].frequency))
    /\ \A t \in cyc.selected :
           LET mine == {g \in ChildrenOf(t) : g.due >= cyc.start[t]}
               next == cyc.start[t] + Period(invoices[t].frequency)
           IN  /\ Cardinality(mine) <= 1
               /\ (spc = "idle" /\ cyc.ended \in {"done", "raised"})
                  => t \in cyc.child
               /\ t \in cyc.child
                  => /\ Cardinality(mine) = 1
                     /\ invoices[t].next_send_date = next
                     /\ next <= now => t \in DueTemplates(invoices, now)

\* C29: every invoice is inserted with a due_date that is not before its
\* date, by create_invoice_page and by the cycle alike.
C29_DueNotBeforeDate ==
    [][\A i \in DOMAIN invoices' \ DOMAIN invoices :
           invoices'[i].due_date >= invoices'[i].date]_vars

----------------------------------------------------------------------------
(* Claims on the pure functions *)

Generated == fin.fn = "generate_invoice_number" /\ fout.done /\ fout.raised = ""

\* the rows of the call's table whose number has the prefix and the
\* year-month of the number returned
ScopeRows == {i \in DOMAIN fin.db :
                 /\ fin.db[i].invoice_number.prefix = fout.number.prefix
                 /\ fin.db[i].invoice_number.ym = fout.number.ym}

C16_Precedence ==
    Generated
    => fout.number.prefix =
           (IF fin.prefix # "" THEN Upper(fin.prefix)
            ELSE IF fin.client.invoice_prefix # ""
            THEN Upper(fin.client.invoice_prefix)
            ELSE IF fin.user.invoice_prefix # ""
            THEN Upper(fin.user.invoice_prefix)
            ELSE "INV")

NextSent == fin.fn = "calculate_next_send_date" /\ fout.done

\* C17: the date returned is null for an invoice that is not recurring or
\* whose frequency is null or none of daily, weekly and monthly; otherwise
\* it is 1, 7 or 30 days after the base date, which is next_send_date if
\* set, else initial_send_date if set, else date.
C17_NextSendDate ==
    NextSent
    => LET inv == fin.inv
           base == IF inv.next_send_date # NoDate THEN inv.next_send_date
                   ELSE IF inv.initial_send_date # NoDate
                   THEN inv.initial_send_date
                   ELSE inv.date
       IN  fout.date =
               (IF ~inv.is_recurring \/ inv.frequency = "" THEN NoDate
                ELSE IF inv.frequency = "daily" THEN base + 1
                ELSE IF inv.frequency = "weekly" THEN base + 7
                ELSE IF inv.frequency = "monthly" THEN base + 30
                ELSE NoDate)

\* a monthly invoice without next_send_date got initial_send_date + 30
C17_Witness ==
    /\ NextSent
    /\ fin.inv.is_recurring
    /\ fin.inv.frequency = "monthly"
    /\ fin.inv.next_send_date = NoDate
    /\ fin.inv.initial_send_date = 5
    /\ fout.date = 35

----------------------------------------------------------------------------
(* Claims on scheduling *)

\* C25: for each template and each due date, at most one child is ever
\* generated.
C25_NoDuplicateChild ==
    \A g, h \in generated :
        (g.template = h.template /\ g.due = h.due) => g.child = h.child

C11_NoOverlap == ~(spc # "idle" /\ peer.pc # "idle")

====
